---- MODULE Spec2Model ----
(***************************************************************************)
(* Schema inference and evolution guard of the Snowflake DDL generator     *)
(* (utils/generate_snowflake_ddl.py and its copy under scripts/python).    *)
(*                                                                         *)
(* A column type is the string the code handles ("INTEGER", "VARCHAR(16)") *)
(* kept as a record [tag, len]: len is the parenthesised length, and       *)
(* None when the string carries none.  A schema is the code's list of      *)
(* (name, type) tuples, duplicates allowed, order kept.                    *)
(***************************************************************************)
EXTENDS Integers, Sequences, FiniteSets, TLC

\* ---------------------------------------------------------------- bounds
MaxCols == 2        \* longest schema handed to compare_schemas
MaxTiers == 3       \* longest varchar_tiers list
MaxRows == 2        \* most data rows of a source file
MaxHeaderLen == 4   \* longest header handed to the column namer
MaxSourceRows == 4  \* most data rows of a source handed to the sampler
MaxExtra == 2       \* most data rows after the 100th of a long source file

\* ------------------------------------------------------- program constants
DefaultVarcharLen == 16777216   \* length assumed for a VARCHAR without (n)

\* ------------------------------------------------------------------ types
\* Optional[...]: None is the empty sequence, a value n is <<n>>
None == <<>>
Some(n) == <<n>>

Names == {"A", "B"}
VarcharLens == {4, 16}

Scalar(tag) == [tag |-> tag, len |-> None]
Varchar(n) == [tag |-> "VARCHAR", len |-> Some(n)]
BareVarchar == [tag |-> "VARCHAR", len |-> None]

INTEGER == Scalar("INTEGER")
FLOAT == Scalar("FLOAT")
BOOLEAN_T == Scalar("BOOLEAN")
DATE == Scalar("DATE")
TIMESTAMP == Scalar("TIMESTAMP")

Types == {INTEGER, FLOAT, BOOLEAN_T, DATE, TIMESTAMP, BareVarchar}
             \cup {Varchar(n) : n \in VarcharLens}

Col(name, typ) == [name |-> name, type |-> typ]
Columns == {Col(n, t) : n \in Names, t \in Types}

SeqsUpTo(S, n) == UNION {[1..k -> S] : k \in 0..n}
Schemas == SeqsUpTo(Columns, MaxCols)

\* ---------------------------------------------------------------- DDLConfig
\* The configuration document is the dict json.load returns: each key of
\* SCHEMA is missing from it, or has a value; a value is kept with its Python
\* type ("int", "list", "str").
ConfigKeys ==
    <<"default_string_length", "varchar_tiers", "date_formats", "timestamp_formats",
      "usecols">>
KeySet == {ConfigKeys[i] : i \in 1..Len(ConfigKeys)}
\* DDLConfig.SCHEMA (utils) and the "type" of DDL_CONFIG_SCHEMA (scripts)
SCHEMA == [k \in KeySet |-> IF k = "default_string_length" THEN "int" ELSE "list"]
Missing == [type |-> "missing", v |-> <<>>]
PyInt(n) == [type |-> "int", v |-> <<n>>]
PyList(l) == [type |-> "list", v |-> l]
PyStr(x) == [type |-> "str", v |-> <<x>>]
\* the literal of line 76
MissingKeyDefault == 16777216
\* config[key] = [] if key in ("date_formats", "timestamp_formats", "usecols")
\*               else 16777216
DefaultFor(key) ==
    IF key \in {"date_formats", "timestamp_formats", "usecols"}
    THEN PyList(<<>>) ELSE PyInt(MissingKeyDefault)
ConfigLoadError == [ok |-> FALSE, config |-> [k \in KeySet |-> Missing]]

\* scripts copy: validate(instance=config, schema=DDL_CONFIG_SCHEMA), every
\* key "required", then the attributes are read
DDLConfig_scripts(doc) ==
    IF \E k \in KeySet : doc[k] = Missing \/ doc[k].type # SCHEMA[k]
    THEN ConfigLoadError
    ELSE [ok |-> TRUE, config |-> doc]

\* utils copy, lines 73-84: a missing key is given a default, then the type
\* of every value is tested; ok = FALSE is the ValueError raised
DDLConfig_utils(doc) ==
    LET config == [k \in KeySet |-> IF doc[k] = Missing THEN DefaultFor(k) ELSE doc[k]]
    IN IF \E k \in KeySet : config[k].type # SCHEMA[k]
       THEN ConfigLoadError
       ELSE [ok |-> TRUE, config |-> config]

\* DDLConfig(config_path, logger) of either copy of the tool
DDLConfig(tool, doc) ==
    IF tool = "utils" THEN DDLConfig_utils(doc) ELSE DDLConfig_scripts(doc)

\* 'VARCHAR' in old_type
IsVarchar(t) == t.tag = "VARCHAR"

\* re.search(r'\((\d+)\)', typ); int(group(1)) if match else 16777216
VarcharLen(t) == IF t.len = None THEN DefaultVarcharLen ELSE t.len[1]

\* keys of {col: typ for col, typ in schema}
ColNames(schema) == {schema[i].name : i \in 1..Len(schema)}

\* {col: typ for col, typ in schema}: a later tuple overwrites an earlier one
ToDict(schema) ==
    [c \in ColNames(schema) |->
        LET last == CHOOSE i \in 1..Len(schema) :
                        /\ schema[i].name = c
                        /\ \A j \in 1..Len(schema) : schema[j].name = c => j <= i
        IN schema[last].type]

\* set(old_dict.keys()) & set(new_dict.keys())
CommonCols(new_schema, old_schema) == ColNames(old_schema) \cap ColNames(new_schema)

\* the orders in which `for col in common_cols` may visit a set
Orders(S) == {f \in [1..Cardinality(S) -> S] : \A i, j \in 1..Cardinality(S) : f[i] = f[j] => i = j}

PairVerdict_lengthsSwapped(old_type, new_type) ==
    IF IsVarchar(old_type) /\ IsVarchar(new_type)
    THEN IF VarcharLen(new_type) > VarcharLen(old_type) THEN "reject"
         ELSE IF VarcharLen(new_type) < VarcharLen(old_type) THEN "larger"
         ELSE "same"
    ELSE IF old_type = INTEGER /\ new_type = FLOAT THEN "larger"
    ELSE IF old_type = FLOAT /\ new_type = INTEGER THEN "reject"
    ELSE IF old_type = DATE /\ new_type = TIMESTAMP THEN "larger"
    ELSE IF old_type = TIMESTAMP /\ new_type = DATE THEN "reject"
    ELSE IF old_type # new_type THEN "reject"
    ELSE "same"

PairVerdict_noIntFloat(old_type, new_type) ==
    IF IsVarchar(old_type) /\ IsVarchar(new_type)
    THEN IF VarcharLen(new_type) < VarcharLen(old_type) THEN "reject"
         ELSE IF VarcharLen(new_type) > VarcharLen(old_type) THEN "larger"
         ELSE "same"
    ELSE IF old_type = INTEGER /\ new_type = FLOAT THEN "same"
    ELSE IF old_type = FLOAT /\ new_type = INTEGER THEN "reject"
    ELSE IF old_type = DATE /\ new_type = TIMESTAMP THEN "larger"
    ELSE IF old_type = TIMESTAMP /\ new_type = DATE THEN "reject"
    ELSE IF old_type # new_type THEN "reject"
    ELSE "same"

PairVerdict_noNarrowCheck(old_type, new_type) ==
    IF IsVarchar(old_type) /\ IsVarchar(new_type)
    THEN IF VarcharLen(new_type) > VarcharLen(old_type) THEN "larger"
         ELSE "same"
    ELSE IF old_type = INTEGER /\ new_type = FLOAT THEN "larger"
    ELSE IF old_type = FLOAT /\ new_type = INTEGER THEN "reject"
    ELSE IF old_type = DATE /\ new_type = TIMESTAMP THEN "larger"
    ELSE IF old_type = TIMESTAMP /\ new_type = DATE THEN "reject"
    ELSE IF old_type # new_type THEN "reject"
    ELSE "same"

\* the if/elif chain of the loop body: what one shared column does
\*   "reject" - return False; "larger" - has_larger_type = True, all_equal = False;
\*   "same"   - neither flag changes
PairVerdict(old_type, new_type) ==
    IF IsVarchar(old_type) /\ IsVarchar(new_type)
    THEN IF VarcharLen(new_type) < VarcharLen(old_type) THEN "reject"
         ELSE IF VarcharLen(new_type) > VarcharLen(old_type) THEN "larger"
         ELSE "same"
    ELSE IF old_type = INTEGER /\ new_type = FLOAT THEN "larger"
    ELSE IF old_type = FLOAT /\ new_type = INTEGER THEN "reject"
    ELSE IF old_type = DATE /\ new_type = TIMESTAMP THEN "larger"
    ELSE IF old_type = TIMESTAMP /\ new_type = DATE THEN "reject"
    ELSE IF old_type # new_type THEN "reject"
    ELSE "same"

FinalVerdict_alwaysReplace(has_larger_type, all_equal) == TRUE

\* if all_equal and not has_larger_type: return False / return True
FinalVerdict(has_larger_type, all_equal) == ~(all_equal /\ ~has_larger_type)

RECURSIVE CompareLoop_widenedWins(_, _, _, _, _)
CompareLoop_widenedWins(order, old_dict, new_dict, has_larger_type, all_equal) ==
    IF order = <<>> THEN FinalVerdict(has_larger_type, all_equal)
    ELSE LET col == Head(order)
             v == PairVerdict(old_dict[col], new_dict[col])
         IN IF v = "reject" THEN has_larger_type
            ELSE IF v = "larger"
                 THEN CompareLoop_widenedWins(Tail(order), old_dict, new_dict, TRUE, FALSE)
                 ELSE CompareLoop_widenedWins(Tail(order), old_dict, new_dict,
                                              has_larger_type, all_equal)

\* for col in common_cols: ... (order is the iteration order of the set)
RECURSIVE CompareLoop(_, _, _, _, _)
CompareLoop(order, old_dict, new_dict, has_larger_type, all_equal) ==
    IF order = <<>> THEN FinalVerdict(has_larger_type, all_equal)
    ELSE LET col == Head(order)
             v == PairVerdict(old_dict[col], new_dict[col])
         IN IF v = "reject" THEN FALSE
            ELSE IF v = "larger"
                 THEN CompareLoop(Tail(order), old_dict, new_dict, TRUE, FALSE)
                 ELSE CompareLoop(Tail(order), old_dict, new_dict,
                                  has_larger_type, all_equal)

compare_schemas_noCommonCheck(new_schema, old_schema, order) ==
    IF old_schema = <<>> THEN TRUE
    ELSE CompareLoop(order, ToDict(old_schema), ToDict(new_schema), FALSE, TRUE)

compare_schemas_acceptAdditions(new_schema, old_schema, order) ==
    IF old_schema = <<>> THEN TRUE
    ELSE IF CommonCols(new_schema, old_schema) = {} THEN TRUE
    ELSE IF ColNames(new_schema) \ ColNames(old_schema) # {} THEN TRUE
    ELSE CompareLoop(order, ToDict(old_schema), ToDict(new_schema), FALSE, TRUE)

\* compare_schemas(new_schema, old_schema, logger); order enumerates common_cols
compare_schemas_alwaysTrue(new_schema, old_schema, order) == TRUE

compare_schemas(new_schema, old_schema, order) ==
    IF old_schema = <<>> THEN TRUE
    ELSE IF CommonCols(new_schema, old_schema) = {} THEN TRUE
    ELSE CompareLoop(order, ToDict(old_schema), ToDict(new_schema), FALSE, TRUE)

\* ------------------------------------------------------ get_varchar_length
TierValues == {4, 16, 256}
Lengths == {0, 3, 4, 5, 16, 17, 256, 257}
Defaults == {16, 100}
TierLists == SeqsUpTo(TierValues, MaxTiers) \ {<<>>}

RECURSIVE TierLoop_strict(_, _)
TierLoop_strict(n, tiers) ==
    IF tiers = <<>> THEN 0
    ELSE IF n < Head(tiers) THEN Head(tiers)
    ELSE TierLoop_strict(n, Tail(tiers))

\* for tier in tiers: if max_length <= tier: return tier  (0: loop fell through)
RECURSIVE TierLoop(_, _)
TierLoop(n, tiers) ==
    IF tiers = <<>> THEN 0
    ELSE IF n <= Head(tiers) THEN Head(tiers)
    ELSE TierLoop(n, Tail(tiers))

get_varchar_length(max_length, tiers, default) ==
    IF max_length = None THEN default
    ELSE LET hit == TierLoop(max_length[1], tiers)
         IN IF hit # 0 THEN hit ELSE tiers[Len(tiers)]

\* ------------------------------------------------------------- characters
\* the characters of the texts of the model, by the classes the code tests
DigitVal ==
    ("0" :> 0) @@ ("1" :> 1) @@ ("2" :> 2) @@ ("3" :> 3) @@ ("4" :> 4) @@
    ("5" :> 5) @@ ("6" :> 6) @@ ("7" :> 7) @@ ("8" :> 8) @@ ("9" :> 9)
IsDigit(c) == c \in DOMAIN DigitVal
LowerCase == {"a", "b", "d", "e", "i", "n", "o", "t"}
UpperCase == {"A", "B", "C", "D", "E", "I", "L", "N", "O", "T"}
IsAlpha(c) == c \in LowerCase \cup UpperCase
IsAlnum(c) == IsAlpha(c) \/ IsDigit(c)

\* ------------------------------------------------------------ Schema Codec
\* The DDL text as its tokens: a word (\w+ with a letter), a number (\d+, which
\* \w+ matches too) or one of ( ) , ; -- white space only separates tokens.
W(s) == [k |-> "w", s |-> s, n |-> 0]
N(n) == [k |-> "d", s |-> "", n |-> n]
P(s) == [k |-> "p", s |-> s, n |-> 0]
Comment == [k |-> "c", s |-> "", n |-> 0]
IsWordTok(t) == t.k \in {"w", "d"}
WordText(t) == IF t.k = "d" THEN ToString(t.n) ELSE t.s

\* str.upper() on the strings of the model: all are upper case but these
ToUpper ==
    ("t" :> "T") @@ ("a" :> "A") @@ ("b" :> "B") @@ ("d" :> "D") @@
    ("e" :> "E") @@ ("i" :> "I") @@ ("n" :> "N") @@ ("o" :> "O")
Upper(s) == IF s \in DOMAIN ToUpper THEN ToUpper[s] ELSE s
UpperType(t) == [tag |-> Upper(t.tag), len |-> t.len]

\* f"{typ}" as tokens
TypeToks(t) ==
    IF t.len = None THEN <<W(t.tag)>>
    ELSE <<W(t.tag), P("("), N(t.len[1]), P(")")>>

RECURSIVE JoinColumns(_)
\* ",\n    ".join(f"{col} {typ}" for col, typ in schema)
JoinColumns(schema) ==
    IF schema = <<>> THEN <<>>
    ELSE <<W(Head(schema).name)>> \o TypeToks(Head(schema).type)
            \o (IF Tail(schema) = <<>> THEN <<>> ELSE <<P(",")>>)
            \o JoinColumns(Tail(schema))

TableNames == {"t", "1bad"}
\* the characters of the table names of the model
TableNameChars ==
    ("t" :> <<"t">>) @@ ("1bad" :> <<"1", "b", "a", "d">>) @@
    ("t_1" :> <<"t", "_", "1">>) @@ ("" :> <<>>) @@ ("t\n" :> <<"t", "\n">>)
\* [a-zA-Z][a-zA-Z0-9_]* over the whole of cs
IsIdentifier(cs) ==
    /\ cs # <<>> /\ IsAlpha(cs[1])
    /\ \A i \in 2..Len(cs) : IsAlnum(cs[i]) \/ cs[i] = "_"
\* re.match(r"^[a-zA-Z][a-zA-Z0-9_]*$", table_name): $ matches at the end of
\* the string and also just before a newline that ends the string
ValidTableName(table_name) ==
    LET cs == TableNameChars[table_name]
    IN \/ IsIdentifier(cs)
       \/ /\ cs # <<>> /\ cs[Len(cs)] = "\n"
          /\ IsIdentifier(SubSeq(cs, 1, Len(cs) - 1))

generate_ddl_firstColumnOnly(table_name, schema) ==
    IF ~ValidTableName(table_name)
    THEN [ok |-> FALSE, error |-> "Invalid table name", ddl |-> <<>>]
    ELSE IF schema = <<>> THEN [ok |-> FALSE, error |-> "Schema is empty", ddl |-> <<>>]
    ELSE [ok |-> TRUE, error |-> "",
          ddl |-> <<W("CREATE"), W("OR"), W("REPLACE"), W("TABLE"), W(table_name), P("(")>>
                     \o JoinColumns(<<Head(schema)>>) \o <<P(")"), P(";")>>]

\* generate_ddl: ok = FALSE stands for the ValueError raised
generate_ddl(table_name, schema) ==
    IF ~ValidTableName(table_name)
    THEN [ok |-> FALSE, error |-> "Invalid table name", ddl |-> <<>>]
    ELSE IF schema = <<>> THEN [ok |-> FALSE, error |-> "Schema is empty", ddl |-> <<>>]
    ELSE [ok |-> TRUE, error |-> "",
          ddl |-> <<W("CREATE"), W("OR"), W("REPLACE"), W("TABLE"), W(table_name), P("(")>>
                     \o JoinColumns(schema) \o <<P(")"), P(";")>>]

\* re.sub(r'--.*?\n|/\*.*?\*/', '', ddl)
StripComments(toks) == SelectSeq(toks, LAMBDA t : t.k # "c")

MatchLen_commaOnly(toks, i) ==
    IF i + 2 <= Len(toks) /\ IsWordTok(toks[i]) /\ IsWordTok(toks[i + 1])
    THEN IF /\ i + 5 <= Len(toks)
            /\ toks[i + 2] = P("(") /\ toks[i + 3].k = "d" /\ toks[i + 4] = P(")")
            /\ toks[i + 5] = P(",")
         THEN 6
         ELSE IF toks[i + 2] = P(",") THEN 3 ELSE 0
    ELSE 0

\* one match of (\w+)\s+(\w+(?:\s*\(\s*\d+\s*\))?)\s*(?:,|\)) starting at token i:
\* the number of tokens it consumes, 0 when it does not match there
MatchLen(toks, i) ==
    IF i + 2 <= Len(toks) /\ IsWordTok(toks[i]) /\ IsWordTok(toks[i + 1])
    THEN IF /\ i + 5 <= Len(toks)
            /\ toks[i + 2] = P("(") /\ toks[i + 3].k = "d" /\ toks[i + 4] = P(")")
            /\ toks[i + 5] \in {P(","), P(")")}
         THEN 6
         ELSE IF toks[i + 2] \in {P(","), P(")")} THEN 3 ELSE 0
    ELSE 0

RECURSIVE FindAll(_, _)
\* re.findall over the text, then (name.upper(), typ.strip().upper())
FindAll(toks, i) ==
    IF i > Len(toks) THEN <<>>
    ELSE LET m == MatchLen(toks, i)
         IN IF m = 0 THEN FindAll(toks, i + 1)
            ELSE <<Col(Upper(WordText(toks[i])),
                       [tag |-> Upper(WordText(toks[i + 1])),
                        len |-> IF m = 6 THEN Some(toks[i + 3].n) ELSE None])>>
                     \o FindAll(toks, i + m)

\* a file: the DDL file holds a token text, the JSON sidecar the document
\* json.load reads from it, a list of {"name", "type"} objects, or bytes that
\* are not JSON (valid = FALSE)
NoFile == [exists |-> FALSE, valid |-> FALSE, text |-> <<>>]
DDLFile(toks) == [exists |-> TRUE, valid |-> TRUE, text |-> toks]
JSONFile(rows) == [exists |-> TRUE, valid |-> TRUE, text |-> rows]
Truncated == [exists |-> TRUE, valid |-> FALSE, text |-> <<>>]

\* [{"name": col, "type": typ} for col, typ in new_schema]
schema_dict_typeWithoutLength(schema) ==
    [i \in 1..Len(schema) |-> [name |-> schema[i].name, type |-> Scalar(schema[i].type.tag)]]
schema_dict(schema) == [i \in 1..Len(schema) |-> [name |-> schema[i].name, type |-> schema[i].type]]

\* the JSON text as its tokens: a string Str(v) or one of [ ] { } : ,
Str(v) == [k |-> "s", s |-> v, n |-> 0]
RECURSIVE DumpObjects(_)
DumpObjects(rows) ==
    IF rows = <<>> THEN <<>>
    ELSE <<P("{"), Str("name"), P(":"), Str(Head(rows).name), P(","),
           Str("type"), P(":"), Str(Head(rows).type), P("}")>>
            \o (IF Tail(rows) = <<>> THEN <<>> ELSE <<P(",")>>)
            \o DumpObjects(Tail(rows))
\* json.dumps(schema_dict, indent=2)
json_dumps(rows) == <<P("[")>> \o DumpObjects(rows) \o <<P("]")>>

JSONDecodeError == [ok |-> FALSE, rows |-> <<>>]
\* an object of two members at token i
IsObjectAt(toks, i) ==
    /\ i + 8 <= Len(toks)
    /\ toks[i] = P("{") /\ toks[i + 1].k = "s" /\ toks[i + 2] = P(":") /\ toks[i + 3].k = "s"
    /\ toks[i + 4] = P(",") /\ toks[i + 5].k = "s" /\ toks[i + 6] = P(":")
    /\ toks[i + 7].k = "s" /\ toks[i + 8] = P("}")
RECURSIVE LoadObjects(_, _)
LoadObjects(toks, i) ==
    IF ~IsObjectAt(toks, i) \/ i + 9 > Len(toks) THEN JSONDecodeError
    ELSE LET row == (toks[i + 1].s :> toks[i + 3].s) @@ (toks[i + 5].s :> toks[i + 7].s)
         IN IF toks[i + 9] = P("]") /\ i + 9 = Len(toks) THEN [ok |-> TRUE, rows |-> <<row>>]
            ELSE IF toks[i + 9] = P(",")
            THEN LET rest == LoadObjects(toks, i + 10)
                 IN IF rest.ok THEN [ok |-> TRUE, rows |-> <<row>> \o rest.rows]
                    ELSE JSONDecodeError
            ELSE JSONDecodeError
\* json.load(f) of a list of objects
json_loads(toks) ==
    IF Len(toks) < 2 \/ toks[1] # P("[") THEN JSONDecodeError
    ELSE IF Len(toks) = 2 /\ toks[2] = P("]") THEN [ok |-> TRUE, rows |-> <<>>]
    ELSE LoadObjects(toks, 2)

parse_existing_schema_ddlFirst(ddl_path, json_path, ddl, json) ==
    IF ddl_path /\ ddl.exists
    THEN [ok |-> TRUE, source |-> "ddl", schema |-> FindAll(StripComments(ddl.text), 1)]
    ELSE IF json_path /\ json.exists
    THEN IF json.valid
         THEN [ok |-> TRUE, source |-> "json",
               schema |-> [i \in 1..Len(json.text) |->
                              Col(Upper(json.text[i].name), UpperType(json.text[i].type))]]
         ELSE [ok |-> FALSE, source |-> "json", schema |-> <<>>]
    ELSE [ok |-> TRUE, source |-> "none", schema |-> <<>>]

\* parse_existing_schema(ddl_path, json_path): ok = FALSE is the ValueError;
\* source says which file was read
parse_existing_schema(ddl_path, json_path, ddl, json) ==
    IF json_path /\ json.exists
    THEN IF json.valid
         THEN [ok |-> TRUE, source |-> "json",
               schema |-> [i \in 1..Len(json.text) |->
                              Col(Upper(json.text[i].name), UpperType(json.text[i].type))]]
         ELSE [ok |-> FALSE, source |-> "json", schema |-> <<>>]
    ELSE IF ddl_path /\ ddl.exists
         THEN [ok |-> TRUE, source |-> "ddl", schema |-> FindAll(StripComments(ddl.text), 1)]
         ELSE [ok |-> TRUE, source |-> "none", schema |-> <<>>]

\* ----------------------------------------------------------- Type Inferencer
\* A text (a header, a cell, a str() of a value) is a sequence of
\* one-character strings.
DATE_SAMPLE_SIZE == 100     \* series.dropna().astype(str).head(100)


Chars(text) == {text[i] : i \in 1..Len(text)}
FirstN(s, n) == SubSeq(s, 1, IF Len(s) < n THEN Len(s) ELSE n)
Max(S) == CHOOSE x \in S : \A y \in S : x >= y

\* --- pandas.read_csv: the dtype of a column of one chunk, and its values
\* the cells read as NaN: a blank cell and the marker NA (one of the default
\* na_values; a blank line of a one-column file is skipped, a line NA is not)
NullCell == <<"N", "A">>
IsNull(t) == t = <<>> \/ t = NullCell
IsIntText(t) == t # <<>> /\ \A c \in Chars(t) : IsDigit(c)
IsFloatText(t) ==
    /\ Cardinality({i \in 1..Len(t) : t[i] = "."}) = 1
    /\ \E i \in 1..Len(t) : IsDigit(t[i])
    /\ \A i \in 1..Len(t) : IsDigit(t[i]) \/ t[i] = "."
TrueText == <<"T", "r", "u", "e">>
FalseText == <<"F", "a", "l", "s", "e">>
IsBoolText(t) == t \in {TrueText, FalseText}

RECURSIVE StripLeadingZeros(_)
StripLeadingZeros(ds) ==
    IF ds = <<>> THEN <<"0">>
    ELSE IF Head(ds) = "0" /\ Len(ds) > 1 THEN StripLeadingZeros(Tail(ds))
    ELSE ds
RECURSIVE StripTrailingZeros(_)
StripTrailingZeros(ds) ==
    IF ds = <<>> THEN <<"0">>
    ELSE IF ds[Len(ds)] = "0" /\ Len(ds) > 1
         THEN StripTrailingZeros(SubSeq(ds, 1, Len(ds) - 1))
    ELSE ds

\* str(int(text)) and str(float(text))
StrInt(t) == StripLeadingZeros(t)
StrFloat(t) ==
    IF IsIntText(t) THEN StripLeadingZeros(t) \o <<".", "0">>
    ELSE LET dot == CHOOSE i \in 1..Len(t) : t[i] = "."
         IN StripLeadingZeros(SubSeq(t, 1, dot - 1)) \o <<".">>
               \o StripTrailingZeros(SubSeq(t, dot + 1, Len(t)))

\* the dtype the parser gives the cells of one chunk: a null cell is NaN and
\* NaN makes a numeric column float64 and a boolean column object
ChunkDtype(cells) ==
    LET n == Len(cells)
        all(Test(_)) == \A i \in 1..n : Test(cells[i])
    IN IF n = 0 THEN "object"
       ELSE IF all(IsNull) THEN "float64"
       ELSE IF all(IsIntText) THEN "int64"
       ELSE IF all(LAMBDA t : IsNull(t) \/ IsIntText(t) \/ IsFloatText(t)) THEN "float64"
       ELSE IF all(IsBoolText) THEN "bool"
       ELSE "object"

\* a value of a column: its kind and its str()
NaN == [kind |-> "nan", text |-> <<>>]
Value(kind, text) == [kind |-> kind, text |-> text]
ChunkValues(cells) ==
    LET dtype == ChunkDtype(cells)
    IN [i \in 1..Len(cells) |->
          IF IsNull(cells[i]) THEN NaN
          ELSE IF dtype = "int64" THEN Value("int", StrInt(cells[i]))
          ELSE IF dtype = "float64" THEN Value("float", StrFloat(cells[i]))
          ELSE IF dtype = "bool" THEN Value("bool", cells[i])
          ELSE Value("str", cells[i])]

\* pd.concat(chunks): the common dtype of the chunks' columns; an int64
\* value in a float64 result is converted
ConcatDtype(chunks) ==
    LET ds == {ChunkDtype(chunks[k]) : k \in 1..Len(chunks)}
    IN IF Cardinality(ds) = 1 THEN CHOOSE d \in ds : TRUE
       ELSE IF ds \subseteq {"int64", "float64"} THEN "float64"
       ELSE "object"
RECURSIVE Flatten(_)
Flatten(seqs) == IF seqs = <<>> THEN <<>> ELSE Head(seqs) \o Flatten(Tail(seqs))
ConcatValues(chunks) ==
    LET vals == Flatten([k \in 1..Len(chunks) |-> ChunkValues(chunks[k])])
    IN IF ConcatDtype(chunks) = "float64"
       THEN [i \in 1..Len(vals) |->
               IF vals[i].kind = "int"
               THEN Value("float", vals[i].text \o <<".", "0">>)
               ELSE vals[i]]
       ELSE vals

\* a series: the dtype and the values of one column of the frame
Series(chunks, sample_rows) ==
    [dtype |-> ConcatDtype(chunks), values |-> FirstN(ConcatValues(chunks), sample_rows)]

\* series.isna().all()
IsNaAll(series) == \A i \in 1..Len(series.values) : series.values[i] = NaN
\* series.dropna().astype(str)
DropNaStr(series) ==
    LET kept == SelectSeq(series.values, LAMBDA v : v # NaN)
    IN [i \in 1..Len(kept) |-> kept[i].text]

\* --- formats: a strptime format is a sequence of directives and literals
Dir(c) == [k |-> "%", c |-> c]
Lit(c) == [k |-> "l", c |-> c]
\* 'H' in fmt: the character occurs in the format string
CharInFormat(c, fmt) == \E i \in 1..Len(fmt) : fmt[i].c = c

Val2(text, i) == 10 * DigitVal[text[i]] + DigitVal[text[i + 1]]
\* the regular expression of a directive: its two-digit alternatives come
\* first, then its one-digit alternative
TwoDigit(d, text, i) ==
    /\ i + 1 <= Len(text) /\ IsDigit(text[i]) /\ IsDigit(text[i + 1])
    /\ LET v == Val2(text, i)
       IN CASE d \in {"m", "I"} -> v \in 1..12
            [] d = "d" -> v \in 1..31
            [] d = "H" -> v \in 0..23
            [] d \in {"M", "S"} -> v \in 0..59
            [] OTHER -> FALSE
OneDigit(d, text, i) ==
    /\ i <= Len(text) /\ IsDigit(text[i])
    /\ CASE d \in {"m", "I", "d"} -> DigitVal[text[i]] \in 1..9
         [] d \in {"H", "M", "S"} -> TRUE
         [] OTHER -> FALSE

RECURSIVE MatchEnd(_, _, _, _)
\* format_regex.match(val): the number of characters the first match of the
\* format's regular expression takes from position i on, -1 without a match
MatchEnd(text, i, fmt, j) ==
    IF j > Len(fmt) THEN i - 1
    ELSE LET it == fmt[j]
         IN IF it.k = "l"
            THEN IF i <= Len(text) /\ text[i] = it.c
                 THEN MatchEnd(text, i + 1, fmt, j + 1) ELSE -1
            ELSE IF it.c = "Y"
            THEN IF i + 3 <= Len(text) /\ \A k \in i..(i + 3) : IsDigit(text[k])
                 THEN MatchEnd(text, i + 4, fmt, j + 1) ELSE -1
            ELSE LET two == IF TwoDigit(it.c, text, i)
                            THEN MatchEnd(text, i + 2, fmt, j + 1) ELSE -1
                 IN IF two # -1 THEN two
                    ELSE IF OneDigit(it.c, text, i)
                         THEN MatchEnd(text, i + 1, fmt, j + 1) ELSE -1

\* pd.to_datetime(value, format=fmt, errors='raise') does not raise: the
\* match exists and leaves no unconverted data
Parses(text, fmt) == MatchEnd(text, 1, fmt, 1) = Len(text)

\* 'DATE' if 'H' not in fmt and 'M' not in fmt else 'TIMESTAMP'
FormatType(fmt) ==
    IF ~CharInFormat("H", fmt) /\ ~CharInFormat("M", fmt) THEN "DATE" ELSE "TIMESTAMP"

\* the formats in order until one parses every value of the sample
RECURSIVE FormatLoop(_, _)
FormatLoop(sample, formats) ==
    IF formats = <<>> THEN None
    ELSE IF \A i \in 1..Len(sample) : Parses(sample[i], Head(formats))
         THEN Some(FormatType(Head(formats)))
         ELSE FormatLoop(sample, Tail(formats))

\* is_date_or_timestamp(series, formats): None, <<"DATE">> or <<"TIMESTAMP">>
is_date_or_timestamp(series, formats) ==
    LET sample == FirstN(DropNaStr(series), DATE_SAMPLE_SIZE)
    IN IF sample = <<>> THEN None ELSE FormatLoop(sample, formats)

\* --- the column name
\* re.sub(r'[^a-zA-Z0-9]', '_', col)
SubNonAlnum(col) == [i \in 1..Len(col) |-> IF IsAlnum(col[i]) THEN col[i] ELSE "_"]
\* .upper()
UpperText(t) == [i \in 1..Len(t) |-> Upper(t[i])]
RECURSIVE LStrip(_)
LStrip(t) == IF t # <<>> /\ Head(t) = "_" THEN LStrip(Tail(t)) ELSE t
RECURSIVE RStrip(_)
RStrip(t) ==
    IF t # <<>> /\ t[Len(t)] = "_" THEN RStrip(SubSeq(t, 1, Len(t) - 1)) ELSE t
\* .strip('_')
Strip(t) == RStrip(LStrip(t))
COL_ == <<"C", "O", "L", "_">>
ColumnName_noPrefix(col, loc) == Strip(UpperText(SubNonAlnum(col)))

\* lines 242-244; loc is df.columns.get_loc(col), counted from 0
ColumnName(col, loc) ==
    LET col_name == Strip(UpperText(SubNonAlnum(col)))
    IN IF col_name = <<>> THEN COL_ \o <<ToString(loc)>>
       ELSE IF ~IsAlpha(col_name[1]) THEN COL_ \o col_name
       ELSE col_name

\* --- the column type (lines 246-261); ok = FALSE is an exception raised
TypeError == [ok |-> FALSE, type |-> None]
TypeOf(t) == [ok |-> TRUE, type |-> t]
MaxLength(strs) == Max({Len(strs[i]) : i \in 1..Len(strs)})

ColumnType_rawLength(series, config) ==
    LET date_type == is_date_or_timestamp(series, config.date_formats \o config.timestamp_formats)
    IN IF date_type # None THEN TypeOf(Scalar(date_type[1]))
       ELSE IF IsNaAll(series) THEN TypeOf(Varchar(config.default_string_length))
       ELSE IF series.dtype = "int64" THEN TypeOf(INTEGER)
       ELSE IF series.dtype = "float64" THEN TypeOf(FLOAT)
       ELSE IF series.dtype = "bool" THEN TypeOf(BOOLEAN_T)
       ELSE TypeOf(Varchar(MaxLength(DropNaStr(series))))

ColumnType_nullLast(series, config) ==
    LET date_type == is_date_or_timestamp(series, config.date_formats \o config.timestamp_formats)
    IN IF date_type # None THEN TypeOf(Scalar(date_type[1]))
       ELSE IF series.dtype = "int64" THEN TypeOf(INTEGER)
       ELSE IF series.dtype = "float64" THEN TypeOf(FLOAT)
       ELSE IF series.dtype = "bool" THEN TypeOf(BOOLEAN_T)
       ELSE IF IsNaAll(series) THEN TypeOf(Varchar(config.default_string_length))
       ELSE IF config.varchar_tiers = <<>> THEN TypeError
       ELSE TypeOf(Varchar(get_varchar_length(Some(MaxLength(DropNaStr(series))),
                               config.varchar_tiers, config.default_string_length)))

ColumnType(series, config) ==
    LET date_type == is_date_or_timestamp(series, config.date_formats \o config.timestamp_formats)
    IN IF date_type # None THEN TypeOf(Scalar(date_type[1]))
       ELSE IF IsNaAll(series) THEN TypeOf(Varchar(config.default_string_length))
       ELSE IF series.dtype = "int64" THEN TypeOf(INTEGER)
       ELSE IF series.dtype = "float64" THEN TypeOf(FLOAT)
       ELSE IF series.dtype = "bool" THEN TypeOf(BOOLEAN_T)
       \* tiers[-1] of an empty list raises IndexError
       ELSE IF config.varchar_tiers = <<>> THEN TypeError
       ELSE TypeOf(Varchar(get_varchar_length(Some(MaxLength(DropNaStr(series))),
                               config.varchar_tiers, config.default_string_length)))

\* --- the sample (lines 223-239)
\* the source file: its header line and its data rows, a row a list of cells
File(headers, rows) == [headers |-> headers, rows |-> rows]
Min(a, b) == IF a < b THEN a ELSE b

RECURSIVE ReaderChunks(_, _, _, _, _)
\* the chunks of read_csv(nrows=, chunksize=): currow rows were handed out;
\* a file without data rows gives one empty chunk
ReaderChunks(rows, currow, nrows, chunksize, first) ==
    IF currow >= nrows THEN <<>>
    ELSE LET size == Min(chunksize, nrows - currow)
             chunk == SubSeq(rows, currow + 1, Min(currow + size, Len(rows)))
         IN IF chunk = <<>> THEN (IF first THEN <<chunk>> ELSE <<>>)
            ELSE <<chunk>> \o ReaderChunks(rows, currow + Len(chunk), nrows, chunksize, FALSE)

RECURSIVE ChunkLoop(_, _, _)
\* for chunk in reader: chunks.append(chunk); rows_read += len(chunk);
\* if rows_read >= sample_rows: break
ChunkLoop(reader, rows_read, sample_rows) ==
    IF reader = <<>> THEN <<>>
    ELSE <<Head(reader)>> \o
            (IF rows_read + Len(Head(reader)) >= sample_rows THEN <<>>
             ELSE ChunkLoop(Tail(reader), rows_read + Len(Head(reader)), sample_rows))

\* the same loop, one pass at a time: the reader (the chunks it has yet to
\* hand out), the list chunks and the counter rows_read; brk is the break
LoopStep_breakBeforeAppend(st, sample_rows) ==
    LET chunk == Head(st.reader)
    IN IF st.rows_read + Len(chunk) >= sample_rows
       THEN [st EXCEPT !.reader = Tail(@), !.brk = TRUE]
       ELSE [st EXCEPT !.reader = Tail(@), !.chunks = Append(@, chunk),
                       !.rows_read = @ + Len(chunk)]

LoopStep(st, sample_rows) ==
    LET chunk == Head(st.reader)
    IN [st EXCEPT !.reader = Tail(@),
                  !.chunks = Append(@, chunk),
                  !.rows_read = @ + Len(chunk),
                  !.brk = (st.rows_read + Len(chunk) >= sample_rows)]

\* df = pd.concat(chunks, ignore_index=True)[:sample_rows]; concat of an empty
\* list raises ValueError
ConcatHead(chunks, sample_rows) ==
    IF chunks = <<>> THEN [ok |-> FALSE, df |-> <<>>]
    ELSE [ok |-> TRUE, df |-> FirstN(Flatten(chunks), sample_rows)]

\* the cells of column j, chunk by chunk
ColumnChunks(chunks, j) ==
    [k \in 1..Len(chunks) |-> [r \in 1..Len(chunks[k]) |-> chunks[k][r][j]]]

\* the positions of the header line that read_csv(usecols=) keeps, in file order
KeptColumns(headers, usecols) ==
    LET keep(j) == usecols = <<>> \/ \E u \in 1..Len(usecols) : usecols[u] = headers[j]
        F[j \in 0..Len(headers)] ==
            IF j = 0 THEN <<>> ELSE IF keep(j) THEN Append(F[j - 1], j) ELSE F[j - 1]
    IN F[Len(headers)]

\* infer_schema: ok = FALSE is the ValueError it raises
InferError == [ok |-> FALSE, schema |-> <<>>]

\* the frame's columns, one by one (lines 241-269)
InferColumns(file, sample_rows, chunk_size, config) ==
    LET kept == KeptColumns(file.headers, config.usecols)
        chunks == ChunkLoop(ReaderChunks(file.rows, 0, sample_rows, chunk_size, TRUE),
                            0, sample_rows)
        col_type(p) == ColumnType(Series(ColumnChunks(chunks, kept[p]), sample_rows), config)
        schema == [p \in 1..Len(kept) |->
                     Col(ColumnName(file.headers[kept[p]], p - 1), col_type(p).type)]
    IN IF \E p \in 1..Len(kept) : ~col_type(p).ok THEN InferError
       \* if not schema: raise ValueError("No columns inferred from the file")
       ELSE IF schema = <<>> THEN InferError
       ELSE [ok |-> TRUE, schema |-> schema]

\* ValueError: usecols do not match the columns
UsecolsMissing(file, config) ==
    \E u \in 1..Len(config.usecols) :
        \A j \in 1..Len(file.headers) : file.headers[j] # config.usecols[u]

infer_schema_noEmptyCheck(file, sample_rows, chunk_size, config) ==
    IF file.headers = <<>> THEN [ok |-> TRUE, schema |-> <<>>]
    ELSE IF UsecolsMissing(file, config) THEN InferError
    ELSE InferColumns(file, sample_rows, chunk_size, config)

infer_schema(file, sample_rows, chunk_size, config) ==
    \* EmptyDataError: no columns to parse from the file
    IF file.headers = <<>> THEN InferError
    ELSE IF UsecolsMissing(file, config) THEN InferError
    ELSE InferColumns(file, sample_rows, chunk_size, config)

\* --- the inputs of the inference runs
RichCells ==
    {NullCell, <<"7">>, <<"1", ".", "5">>, TrueText, <<"a", "b">>,
     <<"2", "0", "2", "4", "0", "1", "0", "2">>,
     <<"2", "0", "2", "4", "-", "0", "1", "-", "0", "2">>}
SmallCells == {NullCell, <<"7">>, <<"a", "b">>}
PairCells == {<<"7">>, <<"a", "b">>}
H_id == <<"i", "d">>
H_note == <<"n", "o", "t", "e">>
H_blank == <<"_">>
H_1a == <<"1", "a">>
SourceFiles ==
    {File(<<>>, <<>>)}
    \cup {File(<<H_id>>, rows) : rows \in SeqsUpTo([1..1 -> RichCells], MaxRows)}
    \cup {File(<<h>>, rows) : h \in {H_note, H_blank, H_1a},
                              rows \in SeqsUpTo([1..1 -> SmallCells], MaxRows)}
    \cup {File(hs, rows) : hs \in {<<H_id, H_note>>, <<H_blank, H_id>>},
                           rows \in SeqsUpTo([1..2 -> PairCells], MaxRows)}

\* "%Y%d%m", "%Y%m%H", "%Y%m%I", "%Y-%m-%d"
F_Ydm == <<Dir("Y"), Dir("d"), Dir("m")>>
F_YmH == <<Dir("Y"), Dir("m"), Dir("H")>>
F_YmI == <<Dir("Y"), Dir("m"), Dir("I")>>
F_Y_m_d == <<Dir("Y"), Lit("-"), Dir("m"), Lit("-"), Dir("d")>>
\* a DDLConfig after __init__
Configs ==
    [default_string_length : {16, 99},
     varchar_tiers : {<<4, 16>>, <<4>>, <<>>},
     date_formats : {<<>>, <<F_Ydm>>, <<F_YmI>>, <<F_Y_m_d>>},
     timestamp_formats : {<<>>, <<F_YmH>>},
     usecols : {<<>>, <<H_id>>}]
InferArgs == [sample_rows : {1, MaxRows}, chunk_size : {1, MaxRows}]
NoConfig ==
    [default_string_length |-> 16, varchar_tiers |-> <<>>, date_formats |-> <<>>,
     timestamp_formats |-> <<>>, usecols |-> <<>>]

\* ------------------------------------------------------------- exit codes
Tools == {"utils", "scripts"}
\* scripts/python/generate_snowflake_ddl.py
EXIT_SUCCESS == 0
EXIT_INVALID_ARGS == 1
EXIT_CONFIG_ERROR == 2
EXIT_EXECUTION_ERROR == 5
EXIT_SKIPPED == 1
\* utils/generate_snowflake_ddl.py: the literals of its sys.exit calls
UTILS_EXIT_SUCCESS == 0
UTILS_EXIT_SKIPPED == 1
UTILS_EXIT_FILE_NOT_FOUND == 2
UTILS_EXIT_SAMPLE_ROWS == 3
UTILS_EXIT_CHUNK_SIZE == 4
UTILS_EXIT_ERROR == 5

\* the sys.exit argument of each way main() ends, per copy of the tool
ExitCode(tool, outcome) ==
    IF tool = "utils"
    THEN CASE outcome = "Success" -> UTILS_EXIT_SUCCESS
           [] outcome = "Rejected" -> UTILS_EXIT_SKIPPED
           [] outcome = "FileNotFound" -> UTILS_EXIT_FILE_NOT_FOUND
           [] outcome = "BadSampleRows" -> UTILS_EXIT_SAMPLE_ROWS
           [] outcome = "BadChunkSize" -> UTILS_EXIT_CHUNK_SIZE
           [] outcome = "ConfigNotFound" -> UTILS_EXIT_ERROR
           [] outcome = "Error" -> UTILS_EXIT_ERROR
    ELSE CASE outcome = "Success" -> EXIT_SUCCESS
           [] outcome = "Rejected" -> EXIT_SKIPPED
           [] outcome = "FileNotFound" -> EXIT_CONFIG_ERROR
           [] outcome = "BadSampleRows" -> EXIT_INVALID_ARGS
           [] outcome = "BadChunkSize" -> EXIT_INVALID_ARGS
           [] outcome = "ConfigNotFound" -> EXIT_CONFIG_ERROR
           [] outcome = "Error" -> EXIT_EXECUTION_ERROR

\* ------------------------------------------------------------------ state
VARIABLES
    g_pc, g_new, g_old, g_order, g_result,     \* one call of compare_schemas
    t_pc, t_max, t_tiers, t_default, t_result, \* one call of get_varchar_length
    i_pc, i_file, i_args, i_config, i_result,  \* one call of infer_schema
    c_pc, c_in, c_out,                         \* one call of the Schema Codec
    h_pc, h_in, h_out,                         \* one call of DDLConfig, of the column
                                               \* namer, or one pass of the sampler
    ddl_file,    \* the file at --output-ddl
    json_file,   \* the file at --output-schema-json
    run,         \* the last run of main(): its arguments and how it ended
    track,       \* history: every run so far had the guard enabled (--skip-existing
                 \* and an output path) and none emptied the DDL file by a failed write
    ever         \* history: the (name, type) pairs those runs wrote to the DDL
                 \* file, kept while track holds

g_vars == <<g_pc, g_new, g_old, g_order, g_result>>
t_vars == <<t_pc, t_max, t_tiers, t_default, t_result>>
i_vars == <<i_pc, i_file, i_args, i_config, i_result>>
c_vars == <<c_pc, c_in, c_out>>
h_vars == <<h_pc, h_in, h_out>>
o_vars == <<ddl_file, json_file, run, track, ever>>
vars == <<g_vars, t_vars, i_vars, c_vars, h_vars, o_vars>>

GuardIdle ==
    /\ g_pc = "idle" /\ g_new = <<>> /\ g_old = <<>> /\ g_order = <<>> /\ g_result = FALSE
TierIdle ==
    /\ t_pc = "idle" /\ t_max = None /\ t_tiers = <<4>> /\ t_default = 16 /\ t_result = 0
InferIdle ==
    /\ i_pc = "idle" /\ i_file = File(<<>>, <<>>)
    /\ i_args = [sample_rows |-> 1, chunk_size |-> 1]
    /\ i_config = NoConfig /\ i_result = InferError
CodecIdle ==
    /\ c_pc = "idle" /\ c_in = [op |-> "none"] /\ c_out = [ok |-> FALSE]
HelperIdle ==
    /\ h_pc = "idle" /\ h_in = [op |-> "none"] /\ h_out = [ok |-> FALSE]
NoRun ==
    [skip_existing |-> FALSE, output_ddl |-> FALSE, output_schema_json |-> FALSE,
     new_schema |-> <<>>, old_schema |-> <<>>, guard |-> "off", stage |-> "none",
     outcome |-> "none", touched |-> {},
     exit_code |-> [t \in Tools |-> 0]]
RunIdle ==
    /\ ddl_file = NoFile /\ json_file = NoFile /\ run = NoRun
    /\ track = FALSE /\ ever = {}

\* ---------------------------------------------- the guard as a pure function
GuardInit ==
    /\ g_pc = "call"
    /\ g_new \in Schemas
    /\ g_old \in Schemas
    /\ g_order = <<>>
    /\ g_result = FALSE
    /\ TierIdle
    /\ InferIdle
    /\ CodecIdle
    /\ HelperIdle
    /\ RunIdle

CompareSchemas ==
    /\ g_pc = "call"
    /\ \E order \in Orders(CommonCols(g_new, g_old)) :
          /\ g_order' = order
          /\ g_result' = compare_schemas(g_new, g_old, order)
    /\ g_pc' = "done"
    /\ UNCHANGED <<g_new, g_old, t_vars, i_vars, c_vars, h_vars, o_vars>>

GuardNext == CompareSchemas
SpecGuard == GuardInit /\ [][GuardNext]_vars

\* ------------------------------------------ get_varchar_length as a function
TierInit ==
    /\ t_pc = "call"
    /\ t_max \in {None} \cup {Some(n) : n \in Lengths}
    /\ t_tiers \in TierLists
    /\ t_default \in Defaults
    /\ t_result = 0
    /\ GuardIdle
    /\ InferIdle
    /\ CodecIdle
    /\ HelperIdle
    /\ RunIdle

GetVarcharLength ==
    /\ t_pc = "call"
    /\ t_result' = get_varchar_length(t_max, t_tiers, t_default)
    /\ t_pc' = "done"
    /\ UNCHANGED <<t_max, t_tiers, t_default, g_vars, i_vars, c_vars, h_vars, o_vars>>

TierNext == GetVarcharLength
SpecTier == TierInit /\ [][TierNext]_vars

\* ------------------------------------------------ infer_schema as a function
InferInit ==
    /\ i_pc = "call"
    /\ i_file \in SourceFiles
    /\ i_args \in InferArgs
    /\ i_config \in Configs
    /\ i_result = InferError
    /\ GuardIdle
    /\ TierIdle
    /\ CodecIdle
    /\ HelperIdle
    /\ RunIdle

InferSchema ==
    /\ i_pc = "call"
    /\ i_result' = infer_schema(i_file, i_args.sample_rows, i_args.chunk_size, i_config)
    /\ i_pc' = "done"
    /\ UNCHANGED <<i_file, i_args, i_config, g_vars, t_vars, c_vars, h_vars, o_vars>>

InferNext == InferSchema
SpecInfer == InferInit /\ [][InferNext]_vars

\* ------------------------------------- infer_schema on long source files
\* one column of DATE_SAMPLE_SIZE - 1 to DATE_SAMPLE_SIZE + MaxExtra rows: the
\* same date in every row ("2024-01-02" or "20240102") but in the first row
\* and in the rows from the 100th on, which hold anything
D_text == <<"2", "0", "2", "4", "-", "0", "1", "-", "0", "2">>
D_num == <<"2", "0", "2", "4", "0", "1", "0", "2">>
EdgeRows == {1} \cup (DATE_SAMPLE_SIZE..(DATE_SAMPLE_SIZE + MaxExtra))
EdgeCells == {D_text, D_num, <<"a", "b">>, <<"1", ".", "5">>, NullCell}
LongFiles ==
    {File(<<H_id>>, [r \in 1..n |-> <<IF r \in EdgeRows THEN edge[r] ELSE bulk>>]) :
        bulk \in {D_text, D_num},
        n \in (DATE_SAMPLE_SIZE - 1)..(DATE_SAMPLE_SIZE + MaxExtra),
        edge \in [EdgeRows -> EdgeCells]}
DetectInit ==
    /\ i_pc = "call"
    /\ i_file \in LongFiles
    /\ i_args \in [sample_rows : {1000}, chunk_size : {50, 10000}]
    /\ i_config \in [default_string_length : {16}, varchar_tiers : {<<4, 16>>},
                     date_formats : {<<F_Ydm, F_Y_m_d>>},
                     timestamp_formats : {<<>>, <<F_YmH>>}, usecols : {<<>>}]
    /\ i_result = InferError
    /\ GuardIdle
    /\ TierIdle
    /\ CodecIdle
    /\ HelperIdle
    /\ RunIdle
SpecDetect == DetectInit /\ [][InferNext]_vars

\* ------------------------------------------------------------ main()
\* the schemas infer_schema returns in the runs: never empty (it raises
\* instead), every column name once, in either order
RunColumns == {Col("A", Varchar(4)), Col("A", Varchar(16)), Col("B", INTEGER)}
RunNames == {c.name : c \in RunColumns}
RunSchemas ==
    {s \in SeqsUpTo(RunColumns, Cardinality(RunNames)) \ {<<>>} :
        \A i, j \in 1..Len(s) : s[i].name = s[j].name => i = j}

SampleRowsArgs == {0, 1000}
ChunkSizeArgs == {0, 10000}
\* Path.write_text: written; raised before the file was opened; raised after
\* the file was opened for writing (and so emptied)
WriteResults == {"ok", "fail_untouched", "fail_truncated"}
AfterWrite(file, content, w) ==
    IF w = "ok" THEN content ELSE IF w = "fail_truncated" THEN Truncated ELSE file

\* the (name, type) pairs a schema publishes, a repeated name by its last tuple
Published(schema) == {<<c, ToDict(schema)[c]>> : c \in ColNames(schema)}

\* how a run ends: the record of the run and the files it leaves.
\*   new_schema, old_schema - the variables of main(), <<>> while unassigned;
\*   stage - the step of main() the run ended in; guard - what the evolution
\*   guard did ("off": not asked, "noprior": no old schema, "accept", "reject");
\*   touched - the files whose content the run changed
End(args, schema, old, guard, stage, outcome, ddl, json, ev) ==
    /\ run' = [skip_existing |-> args.skip, output_ddl |-> args.oddl,
               output_schema_json |-> args.ojson, new_schema |-> schema,
               old_schema |-> old, guard |-> guard, stage |-> stage,
               outcome |-> outcome,
               exit_code |-> [t \in Tools |-> ExitCode(t, outcome)],
               touched |-> (IF ddl # ddl_file THEN {"ddl"} ELSE {})
                              \cup (IF json # json_file THEN {"json"} ELSE {})]
    /\ ddl_file' = ddl
    /\ json_file' = json
    /\ track' = (/\ track
                 /\ args.skip /\ (args.oddl \/ args.ojson)
                 /\ ~(stage = "write_ddl" /\ ddl # ddl_file))
    /\ ever' = IF track' THEN ev ELSE {}

\* lines 350-372: generate_ddl, write the DDL, write the JSON, exit 0
RenderAndWrite(args, schema, old, guard) ==
    \E table_name \in TableNames :
        LET d == generate_ddl(table_name, schema)
            WriteJSON(ddl, ev) ==
                IF args.ojson
                THEN \E w \in WriteResults :
                        LET json == AfterWrite(json_file, JSONFile(schema_dict(schema)), w)
                        IN IF w # "ok"
                           THEN End(args, schema, old, guard, "write_json", "Error",
                                    ddl, json, ev)
                           ELSE End(args, schema, old, guard, "exit", "Success",
                                    ddl, json, ev)
                ELSE End(args, schema, old, guard, "exit", "Success", ddl, json_file, ev)
        IN IF ~d.ok
           THEN End(args, schema, old, guard, "render", "Error", ddl_file, json_file, ever)
           ELSE IF args.oddl
                THEN \E w \in WriteResults :
                        LET ddl == AfterWrite(ddl_file, DDLFile(d.ddl), w)
                        IN IF w # "ok"
                           THEN End(args, schema, old, guard, "write_ddl", "Error",
                                    ddl, json_file, ever)
                           ELSE WriteJSON(ddl, ever \cup Published(schema))
                ELSE WriteJSON(ddl_file, ever)

Guarded_rejectedStillWrites(args, schema) ==
    IF args.skip /\ (args.oddl \/ args.ojson)
    THEN LET p == parse_existing_schema(args.oddl, args.ojson, ddl_file, json_file)
         IN IF ~p.ok
            THEN End(args, schema, <<>>, "off", "parse_prior", "Error",
                     ddl_file, json_file, ever)
            ELSE IF p.schema # <<>>
                 THEN \E order \in Orders(CommonCols(schema, p.schema)) :
                        IF ~compare_schemas(schema, p.schema, order)
                        THEN End(args, schema, p.schema, "reject", "guard", "Rejected",
                                 IF args.oddl THEN DDLFile(generate_ddl("t", schema).ddl)
                                              ELSE ddl_file,
                                 json_file, ever)
                        ELSE RenderAndWrite(args, schema, p.schema, "accept")
                 ELSE RenderAndWrite(args, schema, p.schema, "noprior")
    ELSE RenderAndWrite(args, schema, <<>>, "off")

\* lines 343-348: the evolution guard
Guarded(args, schema) ==
    IF args.skip /\ (args.oddl \/ args.ojson)
    THEN LET p == parse_existing_schema(args.oddl, args.ojson, ddl_file, json_file)
         IN IF ~p.ok
            THEN End(args, schema, <<>>, "off", "parse_prior", "Error",
                     ddl_file, json_file, ever)
            ELSE IF p.schema # <<>>
                 THEN \E order \in Orders(CommonCols(schema, p.schema)) :
                        IF ~compare_schemas(schema, p.schema, order)
                        THEN End(args, schema, p.schema, "reject", "guard", "Rejected",
                                 ddl_file, json_file, ever)
                        ELSE RenderAndWrite(args, schema, p.schema, "accept")
                 ELSE RenderAndWrite(args, schema, p.schema, "noprior")
    ELSE RenderAndWrite(args, schema, <<>>, "off")

\* main(): one run of the tool, from its arguments to sys.exit
Main ==
    \E skip \in BOOLEAN, oddl \in BOOLEAN, ojson \in BOOLEAN :
        LET args == [skip |-> skip, oddl |-> oddl, ojson |-> ojson]
            Early(stage, outcome) ==
                End(args, <<>>, <<>>, "off", stage, outcome, ddl_file, json_file, ever)
        IN \E file_exists \in BOOLEAN :
             IF ~file_exists THEN Early("validate", "FileNotFound")
             ELSE \E sample_rows \in SampleRowsArgs :
               IF sample_rows <= 0 THEN Early("validate", "BadSampleRows")
               ELSE \E chunk_size \in ChunkSizeArgs :
                 IF chunk_size <= 0 THEN Early("validate", "BadChunkSize")
                 ELSE \E config_exists \in BOOLEAN :
                   IF ~config_exists THEN Early("validate", "ConfigNotFound")
                   ELSE \E config_loads \in BOOLEAN :
                     IF ~config_loads THEN Early("config", "Error")
                     ELSE \E inferred \in RunSchemas \cup {<<>>} :
                       \* <<>>: infer_schema raised
                       IF inferred = <<>> THEN Early("infer", "Error")
                       ELSE Guarded(args, inferred)

RunInit == GuardIdle /\ TierIdle /\ InferIdle /\ CodecIdle /\ HelperIdle /\ RunIdle
RunNext == Main /\ UNCHANGED <<g_vars, t_vars, i_vars, c_vars, h_vars>>
Spec == RunInit /\ [][RunNext]_vars

\* the same runs, with the history of the types the guarded runs published
HistoryInit ==
    /\ GuardIdle /\ TierIdle /\ InferIdle /\ CodecIdle /\ HelperIdle
    /\ ddl_file = NoFile /\ json_file = NoFile /\ run = NoRun
    /\ track = TRUE /\ ever = {}
SpecHistory == HistoryInit /\ [][RunNext]_vars

\* ------------------------------------------------- DDLConfig as a function
\* the documents: every key missing, of the expected type, or a string
GoodValue(k) ==
    CASE k = "default_string_length" -> PyInt(16)
      [] k = "varchar_tiers" -> PyList(<<4, 16>>)
      [] k = "usecols" -> PyList(<<>>)
      [] OTHER -> PyList(<<"%Y-%m-%d">>)
ConfigShapes == [KeySet -> {"missing", "good", "bad"}]
DocumentOf(shape) ==
    [k \in KeySet |-> CASE shape[k] = "missing" -> Missing
                        [] shape[k] = "good" -> GoodValue(k)
                        [] OTHER -> PyStr("x")]
ConfigInit ==
    /\ h_pc = "call"
    /\ h_in \in {[op |-> "DDLConfig", tool |-> t, doc |-> DocumentOf(sh)] :
                    t \in Tools, sh \in ConfigShapes}
    /\ h_out = [ok |-> FALSE]
    /\ GuardIdle /\ TierIdle /\ InferIdle /\ CodecIdle /\ RunIdle

LoadConfig ==
    /\ h_pc = "call" /\ h_in.op = "DDLConfig"
    /\ h_out' = DDLConfig(h_in.tool, h_in.doc)
    /\ h_pc' = "done"
    /\ UNCHANGED <<h_in, g_vars, t_vars, i_vars, c_vars, o_vars>>

ConfigNext == LoadConfig
SpecConfig == ConfigInit /\ [][ConfigNext]_vars

\* ---------------------------------------------- the sampler, pass by pass
\* a source of N data rows, each row standing for itself by its number
SourceRows == {[i \in 1..n |-> i] : n \in 0..MaxSourceRows}
SampleInit ==
    /\ h_pc = "call"
    /\ h_in \in [op : {"sample"}, rows : SourceRows,
                 sample_rows : 1..(MaxSourceRows + 1), chunk_size : 1..(MaxSourceRows + 1)]
    /\ h_out = [ok |-> FALSE]
    /\ GuardIdle /\ TierIdle /\ InferIdle /\ CodecIdle /\ RunIdle

\* lines 220-231: rows_read = 0, chunks = [], reader = pd.read_csv(...)
OpenReader ==
    /\ h_pc = "call" /\ h_in.op = "sample"
    /\ h_out' = [ok |-> TRUE,
                 reader |-> ReaderChunks(h_in.rows, 0, h_in.sample_rows, h_in.chunk_size, TRUE),
                 chunks |-> <<>>, rows_read |-> 0, brk |-> FALSE, df |-> <<>>]
    /\ h_pc' = "loop"
    /\ UNCHANGED <<h_in, g_vars, t_vars, i_vars, c_vars, o_vars>>

\* lines 233-237: one pass of the loop body
NextChunk ==
    /\ h_pc = "loop" /\ h_out.reader # <<>> /\ ~h_out.brk
    /\ h_out' = LoopStep(h_out, h_in.sample_rows)
    /\ UNCHANGED <<h_pc, h_in, g_vars, t_vars, i_vars, c_vars, o_vars>>

\* line 239, after the break or the end of the reader
ConcatChunks ==
    /\ h_pc = "loop" /\ (h_out.reader = <<>> \/ h_out.brk)
    /\ LET c == ConcatHead(h_out.chunks, h_in.sample_rows)
       IN h_out' = [h_out EXCEPT !.ok = c.ok, !.df = c.df]
    /\ h_pc' = "done"
    /\ UNCHANGED <<h_in, g_vars, t_vars, i_vars, c_vars, o_vars>>

SampleNext == OpenReader \/ NextChunk \/ ConcatChunks
\* the loop is straight-line code of one thread: a pass that can run does run
SpecSample == SampleInit /\ [][SampleNext]_vars /\ WF_vars(SampleNext)

\* the headers: every text of these characters up to MaxHeaderLen
HeaderChars == {"a", "B", "1", "-", " ", "_"}
Headers == SeqsUpTo(HeaderChars, MaxHeaderLen)
NameInit ==
    /\ h_pc = "call"
    /\ h_in \in [op : {"column_name"}, col : Headers, loc : 0..(MaxCols - 1)]
    /\ h_out = [ok |-> FALSE]
    /\ GuardIdle /\ TierIdle /\ InferIdle /\ CodecIdle /\ RunIdle

NameColumn ==
    /\ h_pc = "call" /\ h_in.op = "column_name"
    /\ h_out' = [ok |-> TRUE, name |-> ColumnName(h_in.col, h_in.loc)]
    /\ h_pc' = "done"
    /\ UNCHANGED <<h_in, g_vars, t_vars, i_vars, c_vars, o_vars>>

NameNext == NameColumn
SpecName == NameInit /\ [][NameNext]_vars

\* ------------------------------------------- the Schema Codec as functions
CodecNames == {"A", "B", "a"}
CodecColumns == {Col(n, t) : n \in CodecNames, t \in Types}
CodecSchemas == SeqsUpTo(CodecColumns, MaxCols)
CodecTableNames == DOMAIN TableNameChars
\* the prior schemas on disk: each written by an earlier run
PriorDDLFiles == {NoFile} \cup {DDLFile(generate_ddl("t", s).ddl) : s \in RunSchemas}
PriorJSONFiles == {NoFile, Truncated} \cup {JSONFile(schema_dict(s)) : s \in RunSchemas}
CodecInputs ==
    [op : {"generate_ddl"}, table_name : CodecTableNames, schema : CodecSchemas]
    \cup [op : {"json_round_trip"}, schema : CodecSchemas]
    \cup [op : {"ddl_round_trip"}, table_name : CodecTableNames, schema : CodecSchemas]
    \cup [op : {"parse_existing_schema"}, ddl_path : BOOLEAN, json_path : BOOLEAN,
          ddl : PriorDDLFiles, json : PriorJSONFiles]

CodecInit ==
    /\ c_pc = "call"
    /\ c_in \in CodecInputs
    /\ c_out = [ok |-> FALSE]
    /\ GuardIdle
    /\ TierIdle
    /\ InferIdle
    /\ HelperIdle
    /\ RunIdle

GenerateDDL ==
    /\ c_pc = "call" /\ c_in.op = "generate_ddl"
    /\ c_out' = generate_ddl(c_in.table_name, c_in.schema)
    /\ c_pc' = "done"
    /\ UNCHANGED <<c_in, g_vars, t_vars, i_vars, h_vars, o_vars>>

\* main() writes the sidecar and parse_existing_schema of a later run reads it
WriteAndParseJSON ==
    /\ c_pc = "call" /\ c_in.op = "json_round_trip"
    /\ LET loaded == json_loads(json_dumps(schema_dict(c_in.schema)))
       IN c_out' = IF loaded.ok
                   THEN parse_existing_schema(FALSE, TRUE, NoFile, JSONFile(loaded.rows))
                   ELSE [ok |-> FALSE, source |-> "json", schema |-> <<>>]
    /\ c_pc' = "done"
    /\ UNCHANGED <<c_in, g_vars, t_vars, i_vars, h_vars, o_vars>>

\* main() writes the DDL file and parse_existing_schema of a later run reads it
WriteAndParseDDL ==
    /\ c_pc = "call" /\ c_in.op = "ddl_round_trip"
    /\ LET d == generate_ddl(c_in.table_name, c_in.schema)
       IN c_out' = IF d.ok
                   THEN parse_existing_schema(TRUE, FALSE, DDLFile(d.ddl), NoFile)
                   ELSE [ok |-> FALSE, source |-> "ddl", schema |-> <<>>]
    /\ c_pc' = "done"
    /\ UNCHANGED <<c_in, g_vars, t_vars, i_vars, h_vars, o_vars>>

ParseExistingSchema ==
    /\ c_pc = "call" /\ c_in.op = "parse_existing_schema"
    /\ c_out' = parse_existing_schema(c_in.ddl_path, c_in.json_path, c_in.ddl, c_in.json)
    /\ c_pc' = "done"
    /\ UNCHANGED <<c_in, g_vars, t_vars, i_vars, h_vars, o_vars>>

CodecNext == GenerateDDL \/ WriteAndParseJSON \/ WriteAndParseDDL \/ ParseExistingSchema
SpecCodec == CodecInit /\ [][CodecNext]_vars

\* ------------------------------------------------- properties of the guard
GuardDone == g_pc = "done"
Common == CommonCols(g_new, g_old)
\* the type a schema gives a column name (its dict entry: the last tuple of that name)
OldType(c) == ToDict(g_old)[c]
NewType(c) == ToDict(g_new)[c]

Narrowed(o, n) == IsVarchar(o) /\ IsVarchar(n) /\ VarcharLen(n) < VarcharLen(o)
Widened(o, n) ==
    \/ IsVarchar(o) /\ IsVarchar(n) /\ VarcharLen(n) > VarcharLen(o)
    \/ o = INTEGER /\ n = FLOAT
    \/ o = DATE /\ n = TIMESTAMP
\* Float to Integer, Timestamp to Date, or a differing pair that is none of
\* Varchar-to-Varchar, Integer-to-Float, Date-to-Timestamp
MismatchPair(o, n) ==
    \/ o = FLOAT /\ n = INTEGER
    \/ o = TIMESTAMP /\ n = DATE
    \/ /\ o # n
       /\ ~(IsVarchar(o) /\ IsVarchar(n))
       /\ ~(o = INTEGER /\ n = FLOAT)
       /\ ~(o = DATE /\ n = TIMESTAMP)
\* every reject row of the verdict table
RejectPair(o, n) == Narrowed(o, n) \/ MismatchPair(o, n)

C2_NarrowingRejected ==
    (GuardDone /\ \E c \in Common : Narrowed(OldType(c), NewType(c)))
        => g_result = FALSE
C2_Witness ==
    /\ GuardDone /\ g_result = FALSE /\ Cardinality(Common) = 2
    /\ \E c \in Common : Narrowed(OldType(c), NewType(c))
    /\ \E c \in Common : Widened(OldType(c), NewType(c))
    /\ Widened(OldType(g_order[1]), NewType(g_order[1]))

\* C3: a shared column that is a mismatch/reject pair forces the verdict false,
\* and every visiting order of the shared columns gives that same verdict.
C3_RejectAnyOrder ==
    (GuardDone /\ \E c \in Common : MismatchPair(OldType(c), NewType(c)))
        => /\ g_result = FALSE
           /\ \A order \in Orders(Common) : compare_schemas(g_new, g_old, order) = FALSE
C3_Witness ==
    /\ GuardDone /\ g_result = FALSE /\ Cardinality(Common) = 2
    /\ OldType(g_order[1]) = INTEGER /\ NewType(g_order[1]) = FLOAT
    /\ OldType(g_order[2]) = BOOLEAN_T /\ IsVarchar(NewType(g_order[2]))

C5_NoOldOrNoCommon ==
    (GuardDone /\ (g_old = <<>> \/ Common = {})) => g_result = TRUE
C5_Witness ==
    /\ GuardDone /\ g_old # <<>> /\ g_new # <<>> /\ Common = {} /\ g_result = TRUE

InsertAt(s, i, e) == SubSeq(s, 1, i - 1) \o <<e>> \o SubSeq(s, i, Len(s))
RemoveAt(s, i) == SubSeq(s, 1, i - 1) \o SubSeq(s, i + 1, Len(s))

\* C6: adding or removing, in either schema, a column whose name does not occur
\* in the other schema leaves the verdict as it was.
C6_UnsharedColumnsIrrelevant ==
    GuardDone =>
        /\ \A col \in Columns : \A i \in 1..(Len(g_new) + 1) :
              col.name \notin ColNames(g_old)
                  => compare_schemas(InsertAt(g_new, i, col), g_old, g_order) = g_result
        /\ \A col \in Columns : \A i \in 1..(Len(g_old) + 1) :
              col.name \notin ColNames(g_new)
                  => compare_schemas(g_new, InsertAt(g_old, i, col), g_order) = g_result
        /\ \A i \in 1..Len(g_new) :
              g_new[i].name \notin ColNames(g_old)
                  => compare_schemas(RemoveAt(g_new, i), g_old, g_order) = g_result
        /\ \A i \in 1..Len(g_old) :
              g_old[i].name \notin ColNames(g_new)
                  => compare_schemas(g_new, RemoveAt(g_old, i), g_order) = g_result
C6_Witness ==
    /\ GuardDone /\ g_result = TRUE /\ Len(g_new) = 2 /\ Len(g_old) = 1
    /\ Cardinality(Common) = 1 /\ g_new[2].name \notin ColNames(g_old)

\* ------------------------------------------------- properties of the runs
\* n is a narrower type than o
NarrowerType(n, o) ==
    \/ IsVarchar(o) /\ IsVarchar(n) /\ VarcharLen(n) < VarcharLen(o)
    \/ o = FLOAT /\ n = INTEGER
    \/ o = TIMESTAMP /\ n = DATE
\* the schema the output DDL file publishes
PublishedDDL(file) == IF file.exists THEN FindAll(StripComments(file.text), 1) ELSE <<>>
\* the last run was guarded and wrote the DDL file
GuardedPublish ==
    /\ run.skip_existing /\ run.output_ddl
    /\ run.stage \in {"write_json", "exit"}

\* C7 (as stated): over a sequence of guarded runs the type the DDL file gives
\* a column name is never narrower than a type an earlier run of the sequence
\* published for that name.
C7_NeverNarrowerThanEarlier ==
    LET now == PublishedDDL(ddl_file)
    IN \A c \in ColNames(now) : \A p \in ever :
          p[1] = c => ~NarrowerType(ToDict(now)[c], p[2])

\* C7 (amended): a guarded run that writes the DDL file gives no column name
\* a narrower type than the old schema it read back gives that name.
C7_NotNarrowerThanPrior ==
    GuardedPublish =>
        LET now == PublishedDDL(ddl_file)
        IN \A c \in ColNames(now) \cap ColNames(run.old_schema) :
              ~NarrowerType(ToDict(now)[c], ToDict(run.old_schema)[c])
C7_Witness ==
    /\ GuardedPublish /\ run.guard = "accept" /\ run.outcome = "Success"
    /\ Col("A", Varchar(4)) \in {run.old_schema[i] : i \in 1..Len(run.old_schema)}
    /\ ToDict(PublishedDDL(ddl_file))["A"] = Varchar(16)

\* C8: a run whose guard is enabled, finds a non-empty old schema and gets
\* false from compare_schemas ends as Rejected and leaves both files untouched.
C8_RejectionKeepsFiles ==
    (/\ run.new_schema # <<>>
     /\ run.skip_existing /\ (run.output_ddl \/ run.output_schema_json)
     /\ run.old_schema # <<>>
     /\ \E order \in Orders(CommonCols(run.new_schema, run.old_schema)) :
           ~compare_schemas(run.new_schema, run.old_schema, order))
    => /\ run.outcome = "Rejected"
       /\ run.touched = {}
C8_Witness ==
    /\ run.outcome = "Rejected" /\ run.guard = "reject"
    /\ ddl_file.exists /\ json_file.exists /\ json_file.valid
    /\ run.old_schema = <<Col("A", Varchar(16))>>
    /\ run.new_schema = <<Col("A", Varchar(4)), Col("B", INTEGER)>>

\* C9: in both copies of the tool the exit status of a rejected evolution is
\* the status of no other way a run ends.
C9_RejectedStatusDistinct ==
    \A t \in Tools :
        run.outcome \notin {"none", "Rejected"} => run.exit_code[t] # ExitCode(t, "Rejected")


\* the ways a run ends that the spec calls InvalidInput, and the other ways
InvalidInputOutcomes == {"FileNotFound", "BadSampleRows", "BadChunkSize"}
OtherOutcomes == {"Success", "Rejected", "ConfigNotFound", "Error"}

\* C21: a run with a missing source file, a sample size <= 0 or a chunk size
\* <= 0 ends during validation (no configuration loaded, no schema inferred,
\* no prior schema read, no file changed) with a status that is the status of
\* no other kind of ending, in both copies of the tool.
C21_InvalidInputEndsAtOnce ==
    run.outcome \in InvalidInputOutcomes =>
        /\ run.stage = "validate"
        /\ run.new_schema = <<>> /\ run.old_schema = <<>>
        /\ run.touched = {}
        /\ \A t \in Tools : \A o \in OtherOutcomes : run.exit_code[t] # ExitCode(t, o)
\* the part of C21 about what the run leaves undone
C21_InvalidInputDoesNothing ==
    run.outcome \in InvalidInputOutcomes =>
        /\ run.stage = "validate"
        /\ run.new_schema = <<>> /\ run.old_schema = <<>>
        /\ run.touched = {}

\* the last run had the guard enabled, found a non-empty prior schema and
\* went on to the writes of lines 352-366
GuardedWrite ==
    /\ run.skip_existing /\ (run.output_ddl \/ run.output_schema_json)
    /\ run.old_schema # <<>>
    /\ run.stage \in {"write_ddl", "write_json", "exit"}

C28_FailureKeepsFiles ==
    run.outcome \in InvalidInputOutcomes \cup {"ConfigNotFound", "Error"}
        => run.touched = {}

\* the schema a file describes, as the tool itself reads it back
SchemaOfJSON(file) == parse_existing_schema(FALSE, TRUE, NoFile, file)

\* C29: after a run given both output paths ends with Success, the DDL file
\* and the JSON sidecar both describe the schema inferred in that run.
C29_OutputsDescribeInferredSchema ==
    (run.outcome = "Success" /\ run.output_ddl /\ run.output_schema_json)
        => /\ ddl_file.exists /\ PublishedDDL(ddl_file) = run.new_schema
           /\ json_file.exists /\ SchemaOfJSON(json_file).ok
           /\ SchemaOfJSON(json_file).schema = run.new_schema
\* an accepted evolution: both files held another schema before the run
C29_Witness ==
    /\ run.outcome = "Success" /\ run.output_ddl /\ run.output_schema_json
    /\ run.guard = "accept" /\ run.touched = {"ddl", "json"}
    /\ Len(run.new_schema) = 2 /\ Len(run.old_schema) = 1
    /\ PublishedDDL(ddl_file) = run.new_schema

\* ------------------------------------- properties of get_varchar_length
TierDone == t_pc = "done"
Ascending(tiers) == \A i, j \in 1..Len(tiers) : i < j => tiers[i] <= tiers[j]
TierSet(tiers) == {tiers[i] : i \in 1..Len(tiers)}
Fitting(n, tiers) == {t \in TierSet(tiers) : t >= n}
Least(S) == CHOOSE x \in S : \A y \in S : x <= y
Greatest(S) == CHOOSE x \in S : \A y \in S : x >= y

\* C10: on an ascending non-empty tier list the result is the smallest tier
\* >= max_length, the largest tier when none is, and default for None.
C10_SmallestFittingTier ==
    (TierDone /\ Ascending(t_tiers)) =>
        IF t_max = None THEN t_result = t_default
        ELSE IF Fitting(t_max[1], t_tiers) # {}
             THEN t_result = Least(Fitting(t_max[1], t_tiers))
             ELSE t_result = Greatest(TierSet(t_tiers))
C10_Witness ==
    /\ TierDone /\ t_tiers = <<4, 16, 256>> /\ t_max = Some(16) /\ t_result = 16

\* ------------------------------------------------ properties of infer_schema
InferDone == i_pc = "done"
InferOk == InferDone /\ i_result.ok
\* the positions of the header line that make the frame's columns
Kept == KeptColumns(i_file.headers, i_config.usecols)
\* the rows of the sample: the first sample_rows rows of the file
SampleRows == FirstN(i_file.rows, i_args.sample_rows)
\* the raw cells of the frame's column p, and those that are not null
RawColumn(p) == [r \in 1..Len(SampleRows) |-> SampleRows[r][Kept[p]]]
RawValues(p) == SelectSeq(RawColumn(p), LAMBDA t : ~IsNull(t))
AllNull(p) == RawValues(p) = <<>>
ConfigFormats == i_config.date_formats \o i_config.timestamp_formats
ConfigLengths == TierSet(i_config.varchar_tiers) \cup {i_config.default_string_length}

\* C11: every VARCHAR(n) of a schema infer_schema returns has n among the
\* configured varchar_tiers or equal to default_string_length.
C11_VarcharLengthsAreTiers ==
    InferOk =>
        \A p \in 1..Len(i_result.schema) :
            IsVarchar(i_result.schema[p].type) =>
                /\ i_result.schema[p].type.len # None
                /\ i_result.schema[p].type.len[1] \in ConfigLengths
C11_Witness ==
    /\ InferOk
    /\ i_config.varchar_tiers = <<4, 16>> /\ i_config.default_string_length = 99
    /\ Len(i_result.schema) = 1 /\ i_result.schema[1].type = Varchar(16)
    /\ MaxLength(RawValues(1)) = 10

\* C12: infer_schema never returns an empty schema; a file that yields no
\* column makes it raise instead of returning.
C12_NeverEmptySchema ==
    InferDone =>
        /\ i_result.ok => i_result.schema # <<>>
        /\ i_file.headers = <<>> => ~i_result.ok
C12_Witness ==
    InferDone /\ i_file.headers = <<>> /\ ~i_result.ok

\* the first of the formats under which every value parses: its position, 0
\* when there is none or there is no value
FirstParsing(values, formats) ==
    LET hits == {f \in 1..Len(formats) :
                    \A i \in 1..Len(values) : Parses(values[i], formats[f])}
    IN IF values = <<>> \/ hits = {} THEN 0 ELSE Least(hits)

\* C13: the formats are tried in the order date_formats, timestamp_formats,
\* and the first one under which every sampled (non-null) value of the column
\* parses decides its type, whatever else the values could be read as.
C13_FirstParsingFormatDecides ==
    InferOk =>
        \A p \in 1..Len(i_result.schema) :
            LET f == FirstParsing(FirstN(RawValues(p), DATE_SAMPLE_SIZE), ConfigFormats)
            IN f # 0 => i_result.schema[p].type = Scalar(FormatType(ConfigFormats[f]))

\* the directives of a time of day: hour (24 and 12 hour clock), minute,
\* second, AM/PM, microsecond
TimeOfDayDirectives == {"H", "I", "M", "S", "p", "f"}
HasTimeOfDay(fmt) ==
    \E i \in 1..Len(fmt) : fmt[i].k = "%" /\ fmt[i].c \in TimeOfDayDirectives
\* the values is_date_or_timestamp tries the formats on
StrValues(p) ==
    LET chunks == ChunkLoop(ReaderChunks(i_file.rows, 0, i_args.sample_rows,
                                         i_args.chunk_size, TRUE), 0, i_args.sample_rows)
    IN FirstN(DropNaStr(Series(ColumnChunks(chunks, Kept[p]), i_args.sample_rows)),
              DATE_SAMPLE_SIZE)

\* C14: the winning format gives DATE when it has no time-of-day component
\* and TIMESTAMP when it has one.
C14_DateIffNoTimeOfDay ==
    InferOk =>
        \A p \in 1..Len(i_result.schema) :
            LET f == FirstParsing(StrValues(p), ConfigFormats)
            IN f # 0 =>
                  i_result.schema[p].type =
                     IF HasTimeOfDay(ConfigFormats[f]) THEN TIMESTAMP ELSE DATE

\* C15: a column that is null in every row of the sample is VARCHAR(default),
\* whatever the formats and tiers; a file with a header line and no data row
\* is inferred, every column VARCHAR(default).
C15_AllNullIsDefaultVarchar ==
    (InferDone /\ i_file.headers # <<>> /\ ~UsecolsMissing(i_file, i_config)) =>
        /\ i_result.ok =>
              \A p \in 1..Len(i_result.schema) :
                  AllNull(p) =>
                      i_result.schema[p].type = Varchar(i_config.default_string_length)
        /\ i_file.rows = <<>> =>
              /\ i_result.ok
              /\ Len(i_result.schema) = Len(Kept)
              /\ \A p \in 1..Len(Kept) :
                    i_result.schema[p].type = Varchar(i_config.default_string_length)
C15_Witness ==
    /\ InferOk /\ Len(i_file.rows) = MaxRows /\ Len(i_result.schema) = 1 /\ AllNull(1)
    /\ i_config.date_formats # <<>> /\ i_config.timestamp_formats # <<>>
    /\ i_config.varchar_tiers = <<>>
    /\ i_result.schema[1].type = Varchar(i_config.default_string_length)
C15_WitnessNoRows ==
    /\ InferOk /\ i_file.rows = <<>> /\ Len(i_result.schema) = 2

\* the type the rules give the non-null values vs: by kind, else by length
KindType(vs) ==
    IF \A i \in 1..Len(vs) : IsIntText(vs[i]) THEN INTEGER
    ELSE IF \A i \in 1..Len(vs) : IsIntText(vs[i]) \/ IsFloatText(vs[i]) THEN FLOAT
    ELSE IF \A i \in 1..Len(vs) : IsBoolText(vs[i]) THEN BOOLEAN_T
    ELSE Varchar(get_varchar_length(Some(MaxLength(vs)), i_config.varchar_tiers,
                                    i_config.default_string_length))
TextType(vs) ==
    Varchar(get_varchar_length(Some(MaxLength(vs)), i_config.varchar_tiers,
                               i_config.default_string_length))
\* a null among the values either does not count as a value, or is a value
\* of no kind and the column is text
ExpectedTypes(p) ==
    IF Len(RawValues(p)) = Len(RawColumn(p)) THEN {KindType(RawValues(p))}
    ELSE {KindType(RawValues(p)), TextType(RawValues(p))}

\* C16: one column per header of the sample, in header order; a column that
\* is neither date-like nor all null is INTEGER, FLOAT, BOOLEAN by the kind of
\* all its values and otherwise VARCHAR of the tier of its longest value.
C16_OneColumnPerHeaderTypedByKind ==
    InferOk =>
        /\ Len(i_result.schema) = Len(Kept)
        /\ \A p \in 1..Len(Kept) :
              /\ i_result.schema[p].name = ColumnName(i_file.headers[Kept[p]], p - 1)
              /\ (/\ ~AllNull(p)
                  /\ FirstParsing(RawValues(p), ConfigFormats) = 0
                  /\ FirstParsing(StrValues(p), ConfigFormats) = 0)
                 => i_result.schema[p].type \in ExpectedTypes(p)

\* C26: the formats are tried on the first 100 non-null values of the column
\* alone: the column is typed by the first format under which these all parse,
\* whatever the later values of the sample are, and is not typed DATE or
\* TIMESTAMP when there is no such format.
C26_OnlyFirst100Decide ==
    InferOk =>
        \A p \in 1..Len(i_result.schema) :
            LET f == FirstParsing(FirstN(RawValues(p), DATE_SAMPLE_SIZE), ConfigFormats)
            IN IF f # 0
               THEN i_result.schema[p].type = Scalar(FormatType(ConfigFormats[f]))
               ELSE i_result.schema[p].type \notin {DATE, TIMESTAMP}
\* the same for the columns whose values the parser keeps as text
C26_OnlyFirst100DecideText ==
    (InferOk /\ \A r \in 1..Len(i_file.rows) : i_file.rows[r][1] # D_num)
        => C26_OnlyFirst100Decide

\* ---------------------------------------------- properties of the Schema Codec
CodecDone == c_pc = "done"
\* the column names of a schema are Identifiers: upper case [A-Z][A-Z0-9_]*
ValidNames(schema) == \A i \in 1..Len(schema) : schema[i].name \in {"A", "B"}

\* C18: a schema with valid identifiers as column names, written as the JSON
\* sidecar and parsed back, is the same schema: names, types and order.
C18_JSONRoundTrip ==
    (CodecDone /\ c_in.op = "json_round_trip" /\ ValidNames(c_in.schema)) =>
        c_out.ok /\ c_out.schema = c_in.schema
C18_Witness ==
    /\ CodecDone /\ c_in.op = "json_round_trip"
    /\ c_in.schema = <<Col("B", Varchar(16)), Col("A", INTEGER)>>
    /\ c_out.ok /\ c_out.schema = c_in.schema

\* C19: generate_ddl fails with the invalid-table-name error when the table
\* name does not match [A-Za-z][A-Za-z0-9_]*, with the schema-empty error when
\* the schema has no column, returns no DDL in both cases, and checks the
\* table name first.
C19_GenerateDDLErrors ==
    (CodecDone /\ c_in.op = "generate_ddl") =>
        IF ~IsIdentifier(TableNameChars[c_in.table_name])
        THEN ~c_out.ok /\ c_out.error = "Invalid table name" /\ c_out.ddl = <<>>
        ELSE IF c_in.schema = <<>>
        THEN ~c_out.ok /\ c_out.error = "Schema is empty" /\ c_out.ddl = <<>>
        ELSE c_out.ok

\* C20: with a JSON prior given and present the schema is the JSON's and the
\* DDL is not read; the DDL is read only without a JSON prior; with neither
\* the prior schema is empty.
C20_OnePriorSourceJSONFirst ==
    (CodecDone /\ c_in.op = "parse_existing_schema") =>
        IF c_in.json_path /\ c_in.json.exists
        THEN /\ c_out.source = "json"
             /\ c_out.ok = c_in.json.valid
             /\ c_out.ok => c_out.schema =
                               [i \in 1..Len(c_in.json.text) |->
                                   Col(c_in.json.text[i].name, c_in.json.text[i].type)]
        ELSE IF c_in.ddl_path /\ c_in.ddl.exists
        THEN c_out.ok /\ c_out.source = "ddl" /\ c_out.schema = PublishedDDL(c_in.ddl)
        ELSE c_out.ok /\ c_out.source = "none" /\ c_out.schema = <<>>
C20_Witness ==
    /\ CodecDone /\ c_in.op = "parse_existing_schema"
    /\ c_in.json_path /\ c_in.ddl_path /\ c_in.json.exists /\ c_in.ddl.exists
    /\ c_in.json.valid /\ c_out.ok
    /\ c_out.schema # PublishedDDL(c_in.ddl)

\* the types the DDL of a schema can name: every type but a VARCHAR without length
TypedColumns(schema) == \A i \in 1..Len(schema) : schema[i].type # BareVarchar

\* C30: for a valid table name and a non-empty schema of valid column names
\* and of the types Integer, Float, Boolean, Date, Timestamp, Varchar(n), the DDL
\* branch of parse_existing_schema gives back, from the text generate_ddl
\* wrote, exactly that schema: no column from the prefix or the table name,
\* the last column included.
C30_DDLRoundTrip ==
    (/\ CodecDone /\ c_in.op = "ddl_round_trip"
     /\ IsIdentifier(TableNameChars[c_in.table_name])
     /\ c_in.schema # <<>> /\ ValidNames(c_in.schema) /\ TypedColumns(c_in.schema))
    => c_out.ok /\ c_out.source = "ddl" /\ c_out.schema = c_in.schema
C30_Witness ==
    /\ CodecDone /\ c_in.op = "ddl_round_trip" /\ c_in.table_name = "t_1"
    /\ c_in.schema = <<Col("B", Varchar(16)), Col("A", DATE)>>
    /\ c_out.ok /\ c_out.schema = c_in.schema

\* -------------------------------------------------- properties of DDLConfig
HelperDone == h_pc = "done"

\* C22: loading a document that lacks one of the five required keys fails, in
\* both copies of the tool: no configuration with a default in the place of
\* the missing key is returned.
C22_MissingFieldIsFatal ==
    (HelperDone /\ h_in.op = "DDLConfig" /\ \E k \in KeySet : h_in.doc[k] = Missing)
        => ~h_out.ok

\* ------------------------------------------------ properties of the sampler
SampleDone == h_pc = "done" /\ h_in.op = "sample"

\* C23: for sample_rows > 0, chunk_size > 0 and a source of N data rows the
\* chunk loop ends, and the sample is the first min(sample_rows, N) rows of
\* the source in source order, never more than sample_rows rows, whatever the
\* ratio of chunk_size to sample_rows.
C23_SampleIsFirstRows ==
    /\ [](SampleDone =>
            /\ h_out.ok
            /\ Len(h_out.df) <= h_in.sample_rows
            /\ h_out.df = SubSeq(h_in.rows, 1, Min(h_in.sample_rows, Len(h_in.rows))))
    /\ <>(h_pc = "done")
\* a chunk size that does not divide the sample size, a longer source
C23_Witness ==
    /\ SampleDone /\ h_in.chunk_size = 2 /\ h_in.sample_rows = 3 /\ Len(h_in.rows) = 4
    /\ Len(h_out.chunks) = 2 /\ h_out.brk /\ h_out.df = <<1, 2, 3>>

\* ------------------------------------------- properties of the column namer
\* [A-Z][A-Z0-9_]*
IsUpperIdentifier(cs) ==
    /\ cs # <<>> /\ cs[1] \in UpperCase
    /\ \A i \in 2..Len(cs) : cs[i] \in UpperCase \/ IsDigit(cs[i]) \/ cs[i] = "_"

\* C24: for every header and every column position the normalized name
\* matches [A-Z][A-Z0-9_]*, headers of punctuation only, empty after
\* stripping, or of digits only included.
C24_NameIsIdentifier ==
    (HelperDone /\ h_in.op = "column_name") => IsUpperIdentifier(h_out.name)
\* a header of punctuation only, named by its position
C24_Witness ==
    /\ HelperDone /\ h_in.op = "column_name"
    /\ h_in.col = <<"-", " ", "_">> /\ h_in.loc = 1
    /\ h_out.name = <<"C", "O", "L", "_", "1">>

RECURSIVE ReplaceRuns(_)
\* every maximal run of characters outside [A-Za-z0-9] becomes one underscore
ReplaceRuns(col) ==
    IF col = <<>> THEN <<>>
    ELSE IF IsAlnum(Head(col)) THEN <<Head(col)>> \o ReplaceRuns(Tail(col))
    ELSE IF Tail(col) # <<>> /\ ~IsAlnum(Head(Tail(col))) THEN ReplaceRuns(Tail(col))
    ELSE <<"_">> \o ReplaceRuns(Tail(col))

\* C25: the name is the header with every maximal run of characters outside
\* [A-Za-z0-9] replaced by one underscore, upper-cased, stripped of leading
\* and trailing underscores (then prefixed when empty or not starting with a
\* letter): "a--b" becomes A_B.
C25_RunsBecomeOneUnderscore ==
    (HelperDone /\ h_in.op = "column_name") =>
        LET expected == Strip(UpperText(ReplaceRuns(h_in.col)))
        IN h_out.name = IF expected = <<>> THEN COL_ \o <<ToString(h_in.loc)>>
                        ELSE IF ~IsAlpha(expected[1]) THEN COL_ \o expected
                        ELSE expected

====
